---- MODULE Spec2Model ----
(***************************************************************************)
(* State-machine model of soulsleek_downloader/app/main.py: the pipeline   *)
(* main() -> download_music() -> process_music() (thread pool of           *)
(* normalize_single_file workers) -> update_metadata_with_beets() ->       *)
(* shutil.rmtree().  External processes (sldl, normalize.sh, beet) are     *)
(* opaque: they emit lines, write files and exit with some code.           *)
(***************************************************************************)
EXTENDS Integers, Sequences, FiniteSets, TLC

(* ------------------------------ bounds -------------------------------- *)
\* number of lines the acquisition process may emit in one run
MaxLines == 2
\* number of distinct files that can exist in the download/input directory
MaxFiles == 4
\* largest core count multiprocessing.cpu_count() may report
MaxCores == 4

(* ------------------------- command-line surface ----------------------- *)
ArgNames == {"process_dir", "playlist_url", "output_dir", "user", "pass", "pref_format"}

\* argparse namespaces, each option abstracted to its truthiness
\* (an option that is absent or given as "" is falsy)
ArgSpace == [ArgNames -> BOOLEAN]

\* main(): branch taken at the if / elif / else over the parsed arguments
ProcessDirConflict(a) == a["playlist_url"] \/ a["user"] \/ a["pass"] \/ a["pref_format"]

PlaylistComplete(a) == a["output_dir"] /\ a["user"] /\ a["pass"] /\ a["pref_format"]

ParseOutcome(a) ==
    IF a["process_dir"]
    THEN IF ProcessDirConflict(a) THEN "usage_error" ELSE "process"
    ELSE IF a["playlist_url"]
         THEN IF ~PlaylistComplete(a) THEN "usage_error" ELSE "download"
         ELSE "usage_error"

(* ------------------------ lines of the sldl stream -------------------- *)
\* A line is a sequence of tokens; substring tests of the code become
\* token-membership tests.  " " is trailing whitespace.
Tokens == {"Failed:", "failed:", "Artist:", "artist:", "Searching", "Downloading", " "}

Lower(t) ==
    CASE t = "Failed:" -> "failed:"
      [] t = "Artist:" -> "artist:"
      [] t = "Searching" -> "searching"
      [] t = "Downloading" -> "downloading"
      [] OTHER -> t

LowerLine(line) == [i \in 1..Len(line) |-> Lower(line[i])]

Contains(line, t) == \E i \in 1..Len(line) : line[i] = t

\* str.rstrip(): drop trailing whitespace
RECURSIVE RStrip(_)
RStrip(line) ==
    IF line # <<>> /\ line[Len(line)] = " "
    THEN RStrip(SubSeq(line, 1, Len(line) - 1))
    ELSE line

\* lines the acquisition tool can print
Lines ==
    { <<"Failed:", "Artist:">>,
      <<"Failed:">>,
      <<"failed:", "artist:">>,
      <<"Searching", " ">> }

\* variant of IsTrackFailure that forgets .lower()
IsTrackFailure_CaseSensitive(line) == Contains(line, "Failed:") /\ Contains(line, "artist:")

\* line 50: "Failed:" in line and "artist:" in line.lower()
IsTrackFailure(line) == Contains(line, "Failed:") /\ Contains(LowerLine(line), "artist:")

\* lines 55-57: display filter
ProgressKeywords == {"Downloading", "tracks:", "Succeeded:", "Failed:", "Completed:"}

IsProgress(line) == \E k \in ProgressKeywords : Contains(line, k)

\* a line of an earlier run's transcript
StaleEntry == <<"Completed:">>

\* what the except handler appends to the transcript (line 82)
ErrorEntry == <<"Error:">>

(* ------------------------------ files --------------------------------- *)
\* Files that may exist in the directory: 1 = 1.flac, 2 = 1.txt, 3 = 1.MP3,
\* 4 = 2.flac, ...
FileIds == 1..MaxFiles

ExtTable == <<".flac", ".txt", ".MP3">>

Ext(f) == ExtTable[((f - 1) % 3) + 1]

Stem(f) == ((f - 1) \div 3) + 1

LowerExt(e) == IF e = ".MP3" THEN ".mp3" ELSE e

supported_extensions == {".flac", ".mp3", ".ogg", ".wav", ".aiff"}

\* variant of IsAudio without the extension filter
IsAudio_AnyFile(f) == TRUE

\* line 183: any(file.lower().endswith(ext) for ext in supported_extensions)
IsAudio(f) == LowerExt(Ext(f)) \in supported_extensions

\* the order in which os.walk lists a set of files: some fixed order of the
\* directory, taken to be ascending file number
RECURSIVE WalkOrder(_)
WalkOrder(S) ==
    IF S = {} THEN <<>>
    ELSE LET m == CHOOSE x \in S : \A y \in S : x <= y
         IN  <<m>> \o WalkOrder(S \ {m})

ExitCodes == {0, 1}

(* ------------------------------ state --------------------------------- *)
VARIABLES
    args,              \* parsed command line (main, line 255)
    pc,                \* position of the coordinating thread
    dirExists,         \* the download / input directory exists
    dirFiles,          \* files currently in that directory
    sldl,              \* acquisition process: "none", "running", "exited"
    sldlRc,            \* its exit code once exited
    sldlLines,         \* most lines the acquisition process prints in this run
    writeFailed,       \* f.write / f.flush on the transcript has raised (line 46-47)
    stream,            \* lines consumed so far from process.stdout
    transcript,        \* contents of download_log.txt
    displayed,         \* lines printed by the display filter
    failed_tracks,     \* download_music local, part of its return value
    download_success,  \* first component of download_music's return value
    dlOutcome,         \* which return of download_music was taken
    pmEntered,         \* process_music has been called
    scriptCheck,       \* outcome of os.access on normalize.sh: "unchecked", "ok", "missing"
    audio_files,       \* process_music local: discovered paths, in walk order
    max_workers,       \* size of the ThreadPoolExecutor
    outDirMade,        \* os.makedirs(converted_dir) has been called
    submitted,         \* number of futures submitted so far
    wstate,            \* per future: "new", "queued", "running", "returned", "raised"
    nproc,             \* per future: normalize.sh process [st, rc]
    result,            \* per future: value returned by normalize_single_file
    collected,         \* number of futures whose result() has been taken
    successful_conversions,
    failed_conversions,
    executorOpen,      \* inside the `with ThreadPoolExecutor` block
    completedOutOfOrder, \* history: a future finished while an earlier one had not
    beet,              \* enrichment process: [st, rc], st "none", "running", "exited"
    enrichCalls,       \* calls of update_metadata_with_beets
    cleanupAttempts,   \* calls of shutil.rmtree(directory)
    walked             \* file names os.walk yielded to process_music

vars == << args, pc, dirExists, dirFiles, sldl, sldlRc, sldlLines, writeFailed, stream,
           transcript, displayed, failed_tracks, download_success, dlOutcome, pmEntered,
           scriptCheck, audio_files, max_workers, outDirMade, submitted, wstate, nproc,
           result, collected, successful_conversions, failed_conversions, executorOpen,
           completedOutOfOrder, beet, enrichCalls, cleanupAttempts, walked >>

dlVars == << sldl, sldlRc, sldlLines, writeFailed, stream, transcript, displayed, failed_tracks,
             download_success, dlOutcome >>

poolVars == << scriptCheck, walked, audio_files, max_workers, outDirMade, submitted,
               wstate, nproc, result, collected, successful_conversions,
               failed_conversions, executorOpen, completedOutOfOrder >>

tailVars == << beet, enrichCalls, cleanupAttempts >>

dirVars == << dirExists, dirFiles >>

NoResult == [status |-> "none", file |-> 0, error |-> ""]

NoProc == [st |-> "none", rc |-> 0]

Init ==
    /\ args \in ArgSpace
    /\ pc = "parse"
    /\ dirExists \in BOOLEAN
    /\ dirFiles \in SUBSET FileIds
    /\ (~dirExists => dirFiles = {})
    /\ sldl = "none"
    /\ sldlRc = 0
    \* explored runs: the acquisition tool either prints lines into an empty
    \* directory, or prints nothing and delivers files
    /\ sldlLines \in 0..MaxLines
    /\ (sldlLines > 0 => ParseOutcome(args) = "download" /\ dirFiles = {})
    /\ writeFailed = FALSE
    /\ stream = <<>>
    \* download_log.txt may be left over from an earlier run
    /\ transcript \in {<<>>, <<StaleEntry>>}
    /\ (transcript # <<>> => sldlLines > 0)
    /\ displayed = <<>>
    /\ failed_tracks = <<>>
    /\ download_success = FALSE
    /\ dlOutcome = "none"
    /\ pmEntered = FALSE
    /\ scriptCheck = "unchecked"
    /\ audio_files = <<>>
    /\ max_workers = 0
    /\ outDirMade = FALSE
    /\ submitted = 0
    /\ wstate = <<>>
    /\ nproc = <<>>
    /\ result = <<>>
    /\ collected = 0
    /\ successful_conversions = <<>>
    /\ failed_conversions = <<>>
    /\ executorOpen = FALSE
    /\ completedOutOfOrder = FALSE
    /\ beet = NoProc
    /\ enrichCalls = 0
    /\ cleanupAttempts = 0
    /\ walked = {}

(* ------------------------------ main ---------------------------------- *)
\* main(), lines 255-270: parse the arguments and enter the selected mode.
\* parser.error() prints the usage and exits with status 2.
MainParse ==
    /\ pc = "parse"
    /\ LET o == ParseOutcome(args) IN
         \/ /\ o = "usage_error"
            /\ pc' = "usage_error"
            /\ UNCHANGED << dirVars, pmEntered >>
         \/ /\ o = "process"
            /\ pc' = "pm_check"
            /\ pmEntered' = TRUE
            /\ UNCHANGED dirVars
         \/ /\ o = "download"
            \* os.makedirs(download_dir, exist_ok=True)
            /\ dirExists' = TRUE
            /\ pc' = "dl_preflight"
            /\ UNCHANGED << dirFiles, pmEntered >>
    /\ UNCHANGED << args, dlVars, poolVars, tailVars >>

(* --------------------------- download_music --------------------------- *)
\* lines 17-19: os.path.exists("/usr/local/bin/sldl")
DlPreflight ==
    /\ pc = "dl_preflight"
    /\ \E present \in BOOLEAN :
         IF present
         THEN /\ pc' = "dl_open"
              /\ UNCHANGED << download_success, dlOutcome >>
         ELSE /\ pc' = "dl_returned"
              /\ download_success' = FALSE
              /\ dlOutcome' = "preflight"
    /\ UNCHANGED << args, dirVars, sldl, sldlRc, sldlLines, writeFailed, stream, transcript,
                    displayed, failed_tracks, pmEntered, poolVars, tailVars >>

\* line 40: open(log_file, 'w') truncates the transcript, or raises
DlOpenLog ==
    /\ pc = "dl_open"
    /\ \/ /\ transcript' = <<>>
          /\ pc' = "dl_launch"
       \/ /\ pc' = "dl_except"
          /\ UNCHANGED transcript
    /\ UNCHANGED << args, dirVars, sldl, sldlRc, sldlLines, writeFailed, stream, displayed,
                    failed_tracks, download_success, dlOutcome, pmEntered, poolVars,
                    tailVars >>

\* lines 41-42: subprocess.Popen(command, ...) starts sldl, or raises
DlLaunch ==
    /\ pc = "dl_launch"
    /\ \/ /\ sldl' = "running"
          /\ pc' = "dl_read"
       \/ /\ pc' = "dl_except"
          /\ UNCHANGED sldl
    /\ UNCHANGED << args, dirVars, sldlRc, sldlLines, writeFailed, stream, transcript,
                    displayed, failed_tracks, download_success, dlOutcome, pmEntered,
                    poolVars, tailVars >>

\* variant of LogLine that writes only what the display filter lets through
LogLine_OnlyDisplayed(log, line) == IF IsProgress(line) THEN Append(log, line) ELSE log

\* lines 46-47: f.write(line + '\n'); f.flush()
LogLine(log, line) == Append(log, line)

\* lines 44-58: one iteration of `for line in process.stdout`
DlReadLine(l) ==
    /\ pc = "dl_read"
    /\ sldl = "running"
    /\ Len(stream) < sldlLines
    /\ stream' = Append(stream, l)
    /\ LET line == RStrip(l) IN
         /\ transcript' = LogLine(transcript, line)
         /\ failed_tracks' = IF IsTrackFailure(line)
                             THEN Append(failed_tracks, line) ELSE failed_tracks
         /\ displayed' = IF IsProgress(line) THEN Append(displayed, line) ELSE displayed
    /\ UNCHANGED << args, pc, dirVars, sldl, sldlRc, sldlLines, writeFailed,
                    download_success, dlOutcome, pmEntered, poolVars, tailVars >>

\* lines 44-47: a line is read and f.write / f.flush raises; control leaves the
\* with block for the except clause without process.wait()
DlWriteRaises(l) ==
    /\ pc = "dl_read"
    /\ sldl = "running"
    /\ Len(stream) < sldlLines
    /\ stream' = Append(stream, l)
    /\ writeFailed' = TRUE
    /\ pc' = "dl_except"
    /\ UNCHANGED << args, dirVars, sldl, sldlRc, sldlLines, transcript, displayed,
                    failed_tracks, download_success, dlOutcome, pmEntered, poolVars,
                    tailVars >>

\* lines 44, 79: reading process.stdout raises (e.g. undecodable output);
\* control reaches the except clause without process.wait()
DlReadRaises ==
    /\ pc = "dl_read"
    /\ sldl = "running"
    /\ pc' = "dl_except"
    /\ UNCHANGED << args, dirVars, sldl, sldlRc, sldlLines, writeFailed, stream, transcript,
                    displayed, failed_tracks, download_success, dlOutcome, pmEntered,
                    poolVars, tailVars >>

\* lines 60-77: end of stream, process.wait(), summary, return by exit code
DlFinish ==
    /\ pc = "dl_read"
    /\ sldl = "exited"
    /\ download_success' = (sldlRc = 0)
    /\ dlOutcome' = IF sldlRc = 0 THEN "exit_zero" ELSE "exit_nonzero"
    /\ pc' = "dl_returned"
    /\ UNCHANGED << args, dirVars, sldl, sldlRc, sldlLines, writeFailed, stream, transcript,
                    displayed, failed_tracks, pmEntered, poolVars, tailVars >>

\* lines 79-83: except Exception: append the error to the transcript and
\* return False; if the append raises too the exception leaves main()
DlExcept ==
    /\ pc = "dl_except"
    /\ \/ /\ transcript' = Append(transcript, ErrorEntry)
          /\ download_success' = FALSE
          /\ dlOutcome' = "exception"
          /\ pc' = "dl_returned"
       \/ /\ pc' = "crashed"
          /\ UNCHANGED << transcript, download_success, dlOutcome >>
    /\ UNCHANGED << args, dirVars, sldl, sldlRc, sldlLines, writeFailed, stream, displayed,
                    failed_tracks, pmEntered, poolVars, tailVars >>

\* the acquisition process exits (whether or not anyone still waits for it)
SldlExit(c) ==
    /\ sldl = "running"
    /\ sldl' = "exited"
    /\ sldlRc' = c
    /\ UNCHANGED << args, pc, dirVars, sldlLines, writeFailed, stream, transcript,
                    displayed, failed_tracks, download_success, dlOutcome, pmEntered,
                    poolVars, tailVars >>

\* the acquisition process stores a downloaded file in the download directory
SldlWritesFile(f) ==
    /\ sldl = "running"
    /\ sldlLines = 0
    /\ dirExists
    /\ f \notin dirFiles
    /\ dirFiles' = dirFiles \cup {f}
    /\ UNCHANGED << args, pc, dirExists, dlVars, pmEntered, poolVars, tailVars >>

\* variant of ShouldProcess that ignores the directory listing
ShouldProcess_SuccessOnly(ok, listing) == ok

\* line 281: download_success or os.listdir(download_dir)
ShouldProcess(ok, listing) == ok \/ listing # {}

\* lines 281-287: enter process_music, or skip it and finish
MainDecide ==
    /\ pc = "dl_returned"
    /\ IF ShouldProcess(download_success, dirFiles)
       THEN /\ pc' = "pm_check"
            /\ pmEntered' = TRUE
       ELSE /\ pc' = "done"
            /\ UNCHANGED pmEntered
    /\ UNCHANGED << args, dirVars, dlVars, poolVars, tailVars >>

(* ---------------------------- process_music --------------------------- *)
\* variant of PmCheckScript that reports the missing script and carries on
PmCheckScript_NoReturn ==
    /\ pc = "pm_check"
    /\ \E executable \in BOOLEAN :
         scriptCheck' = IF executable THEN "ok" ELSE "missing"
    /\ pc' = "pm_discover"
    /\ UNCHANGED << args, dirVars, dlVars, pmEntered, walked, audio_files, max_workers,
                    outDirMade, submitted, wstate, nproc, result, collected,
                    successful_conversions, failed_conversions, executorOpen,
                    completedOutOfOrder, tailVars >>

\* lines 172-177: os.access(normalize_script_path, os.X_OK)
PmCheckScript ==
    /\ pc = "pm_check"
    /\ \E executable \in BOOLEAN :
         /\ scriptCheck' = IF executable THEN "ok" ELSE "missing"
         /\ pc' = IF executable THEN "pm_discover" ELSE "done"
    /\ UNCHANGED << args, dirVars, dlVars, pmEntered, walked, audio_files, max_workers,
                    outDirMade, submitted, wstate, nproc, result, collected,
                    successful_conversions, failed_conversions, executorOpen,
                    completedOutOfOrder, tailVars >>

\* line 195: max(1, multiprocessing.cpu_count() // 2)
PoolSize(cores) == IF cores \div 2 >= 1 THEN cores \div 2 ELSE 1

\* lines 179-200: walk the directory, keep the audio files; return if there
\* are none, else create the output directory and size the pool
PmDiscover ==
    /\ pc = "pm_discover"
    /\ walked' = dirFiles
    /\ LET order == WalkOrder({f \in dirFiles : IsAudio(f)}) IN
         /\ audio_files' = order
         /\ IF order = <<>>
            THEN /\ pc' = "done"
                 /\ UNCHANGED << max_workers, outDirMade, wstate, nproc, result,
                                 executorOpen >>
            ELSE /\ \E cores \in 1..MaxCores : max_workers' = PoolSize(cores)
                 /\ outDirMade' = TRUE
                 /\ wstate' = [i \in 1..Len(order) |-> "new"]
                 /\ nproc' = [i \in 1..Len(order) |-> NoProc]
                 /\ result' = [i \in 1..Len(order) |-> NoResult]
                 /\ executorOpen' = TRUE
                 /\ pc' = "pm_submit"
    /\ UNCHANGED << args, dirVars, dlVars, pmEntered, scriptCheck, submitted, collected,
                    successful_conversions, failed_conversions, completedOutOfOrder,
                    tailVars >>

\* lines 205-207: executor.submit(normalize_single_file, file_path, ...)
PmSubmit ==
    /\ pc = "pm_submit"
    /\ submitted < Len(audio_files)
    /\ submitted' = submitted + 1
    /\ wstate' = [wstate EXCEPT ![submitted + 1] = "queued"]
    /\ pc' = IF submitted + 1 = Len(audio_files) THEN "pm_collect" ELSE "pm_submit"
    /\ UNCHANGED << args, dirVars, dlVars, pmEntered, scriptCheck, walked, audio_files,
                    max_workers, outDirMade, nproc, result, collected,
                    successful_conversions, failed_conversions, executorOpen,
                    completedOutOfOrder, tailVars >>

(* ------------------- pool threads: normalize_single_file -------------- *)
Busy == { j \in DOMAIN wstate : wstate[j] = "running" }

\* normalize_single_file has returned for future j (lines 117, 119 or 122)
Finished(j) == wstate[j] \in {"returned", "raised"}

\* the executor's work queue is FIFO: a free thread takes the oldest item
NextQueued(i) ==
    /\ i \in DOMAIN wstate
    /\ wstate[i] = "queued"
    /\ \A j \in DOMAIN wstate : j < i => wstate[j] # "queued"
    /\ Cardinality(Busy) < max_workers

\* line 93: os.path.basename(file_path), the file name with its extension
Basename(f) == << Stem(f), Ext(f) >>

\* variant of OutputFile that names the output after the directory, not the file
OutputFile_FromDirectory(f) == << 0, ".mp3" >>

\* lines 90-91: splitext(basename(file_path))[0] + ".mp3" inside converted_dir
OutputFile(f) == << Stem(f), ".mp3" >>

\* variant of ExitResult that does not look at the exit code
ExitResult_IgnoresCode(file, rc) == [status |-> "success", file |-> file, error |-> ""]

\* lines 115-119: verdict from process.returncode
ExitResult(file, rc) ==
    IF rc = 0
    THEN [status |-> "success", file |-> file, error |-> ""]
    ELSE [status |-> "failed", file |-> file, error |-> "Exit code"]

\* lines 121-122: verdict of the except clause
ExceptionResult(file) == [status |-> "failed", file |-> file, error |-> "exception"]

\* future i finishes while a future submitted before it is still unfinished
Overtakes(i) == \E j \in DOMAIN wstate : j < i /\ ~Finished(j)

\* lines 89-99: a pool thread takes the item and starts normalize.sh
WorkerLaunch(i) ==
    /\ NextQueued(i)
    /\ wstate' = [wstate EXCEPT ![i] = "running"]
    /\ nproc' = [nproc EXCEPT ![i] = [st |-> "running", rc |-> 0]]
    /\ UNCHANGED << args, pc, dirVars, dlVars, pmEntered, scriptCheck, walked, audio_files,
                    max_workers, outDirMade, submitted, result, collected,
                    successful_conversions, failed_conversions, executorOpen,
                    completedOutOfOrder, tailVars >>

\* lines 89-99, 121-122: Popen (or a statement before it) raises
WorkerLaunchRaises(i) ==
    /\ NextQueued(i)
    /\ wstate' = [wstate EXCEPT ![i] = "raised"]
    /\ result' = [result EXCEPT ![i] = ExceptionResult(audio_files[i])]
    /\ completedOutOfOrder' = (completedOutOfOrder \/ Overtakes(i))
    /\ UNCHANGED << args, pc, dirVars, dlVars, pmEntered, scriptCheck, walked, audio_files,
                    max_workers, outDirMade, submitted, nproc, collected,
                    successful_conversions, failed_conversions, executorOpen, tailVars >>

\* lines 103-111, 121-122: reading process.stdout raises; the thread returns
\* without process.wait()
WorkerReadRaises(i) ==
    /\ i \in DOMAIN wstate
    /\ wstate[i] = "running"
    /\ wstate' = [wstate EXCEPT ![i] = "raised"]
    /\ result' = [result EXCEPT ![i] = ExceptionResult(audio_files[i])]
    /\ completedOutOfOrder' = (completedOutOfOrder \/ Overtakes(i))
    /\ UNCHANGED << args, pc, dirVars, dlVars, pmEntered, scriptCheck, walked, audio_files,
                    max_workers, outDirMade, submitted, nproc, collected,
                    successful_conversions, failed_conversions, executorOpen, tailVars >>

\* normalize.sh for item i exits
NormExit(i, c) ==
    /\ i \in DOMAIN nproc
    /\ nproc[i].st = "running"
    /\ nproc' = [nproc EXCEPT ![i] = [st |-> "exited", rc |-> c]]
    /\ UNCHANGED << args, pc, dirVars, dlVars, pmEntered, scriptCheck, walked, audio_files,
                    max_workers, outDirMade, submitted, wstate, result, collected,
                    successful_conversions, failed_conversions, executorOpen,
                    completedOutOfOrder, tailVars >>

\* lines 113-119: process.wait() returns and the thread returns its verdict
WorkerFinish(i) ==
    /\ i \in DOMAIN wstate
    /\ wstate[i] = "running"
    /\ nproc[i].st = "exited"
    /\ wstate' = [wstate EXCEPT ![i] = "returned"]
    /\ result' = [result EXCEPT ![i] = ExitResult(audio_files[i], nproc[i].rc)]
    /\ completedOutOfOrder' = (completedOutOfOrder \/ Overtakes(i))
    /\ UNCHANGED << args, pc, dirVars, dlVars, pmEntered, scriptCheck, walked, audio_files,
                    max_workers, outDirMade, submitted, nproc, collected,
                    successful_conversions, failed_conversions, executorOpen, tailVars >>

(* ----------------------- process_music: fan-in ------------------------ *)
\* variant of CollectSuccess that puts the newest success first
CollectSuccess_Prepend(succ, r) ==
    IF r.status = "success" THEN << r.file >> \o succ ELSE succ

\* lines 212-213
CollectSuccess(succ, r) ==
    IF r.status = "success" THEN Append(succ, r.file) ELSE succ

\* variant of CollectFailure that records only non-zero exits
CollectFailure_ExitCodesOnly(fail, r) ==
    IF r.status = "failed" /\ r.error = "Exit code"
    THEN Append(fail, [file |-> r.file, error |-> r.error]) ELSE fail

\* lines 214-215
CollectFailure(fail, r) ==
    IF r.status = "success" THEN fail
    ELSE Append(fail, [file |-> r.file, error |-> r.error])

\* lines 210-215: future.result() of the next future, in submission order
PmCollect ==
    /\ pc = "pm_collect"
    /\ collected < Len(audio_files)
    /\ Finished(collected + 1)
    /\ collected' = collected + 1
    /\ successful_conversions' = CollectSuccess(successful_conversions, result[collected + 1])
    /\ failed_conversions' = CollectFailure(failed_conversions, result[collected + 1])
    /\ UNCHANGED << args, pc, dirVars, dlVars, pmEntered, scriptCheck, walked, audio_files,
                    max_workers, outDirMade, submitted, wstate, nproc, result,
                    executorOpen,
                    completedOutOfOrder, tailVars >>

\* ThreadPoolExecutor.__exit__: shutdown(wait=True) joins the pool threads
PoolJoined == \A j \in DOMAIN wstate : Finished(j)

\* variant of ShouldEnrich that runs the enrichment unconditionally
ShouldEnrich_Always(succ) == TRUE

\* line 226: if successful_conversions
ShouldEnrich(succ) == succ # <<>>

\* variant of PmReport that removes the directory only after a conversion succeeded
PmReport_CleanupOnlyOnSuccess ==
    /\ pc = "pm_collect"
    /\ collected = Len(audio_files)
    /\ PoolJoined
    /\ executorOpen' = FALSE
    /\ IF ShouldEnrich(successful_conversions)
       THEN /\ enrichCalls' = enrichCalls + 1
            /\ pc' = "en_launch"
       ELSE /\ pc' = "done"
            /\ UNCHANGED enrichCalls
    /\ UNCHANGED << args, dirVars, dlVars, pmEntered, scriptCheck, walked, audio_files,
                    max_workers, outDirMade, submitted, wstate, nproc, result, collected,
                    successful_conversions, failed_conversions, completedOutOfOrder,
                    beet, cleanupAttempts >>

\* lines 203-228: leave the with block, print the report, call
\* update_metadata_with_beets if anything was converted
PmReport ==
    /\ pc = "pm_collect"
    /\ collected = Len(audio_files)
    /\ PoolJoined
    /\ executorOpen' = FALSE
    /\ IF ShouldEnrich(successful_conversions)
       THEN /\ enrichCalls' = enrichCalls + 1
            /\ pc' = "en_launch"
       ELSE /\ pc' = "pm_cleanup"
            /\ UNCHANGED enrichCalls
    /\ UNCHANGED << args, dirVars, dlVars, pmEntered, scriptCheck, walked, audio_files,
                    max_workers, outDirMade, submitted, wstate, nproc, result, collected,
                    successful_conversions, failed_conversions, completedOutOfOrder,
                    beet, cleanupAttempts >>

(* ---------------------- update_metadata_with_beets -------------------- *)
\* lines 130-135, 161-163: Popen starts beet, or raises and False is returned
EnLaunch ==
    /\ pc = "en_launch"
    /\ \/ /\ beet' = [st |-> "running", rc |-> 0]
          /\ pc' = "en_read"
       \/ /\ pc' = "pm_cleanup"
          /\ UNCHANGED beet
    /\ UNCHANGED << args, dirVars, dlVars, pmEntered, poolVars, enrichCalls,
                    cleanupAttempts >>

\* lines 138-150, 161-163: reading process.stdout raises; False is returned
\* without process.wait()
EnReadRaises ==
    /\ pc = "en_read"
    /\ pc' = "pm_cleanup"
    /\ UNCHANGED << args, dirVars, dlVars, pmEntered, poolVars, tailVars >>

\* the enrichment process exits
BeetExit(c) ==
    /\ beet.st = "running"
    /\ beet' = [st |-> "exited", rc |-> c]
    /\ UNCHANGED << args, pc, dirVars, dlVars, pmEntered, poolVars, enrichCalls,
                    cleanupAttempts >>

\* variant of EnFinish in which a non-zero exit of beet ends the run
EnFinish_AbortsOnNonZero ==
    /\ pc = "en_read"
    /\ beet.st = "exited"
    /\ pc' = IF beet.rc = 0 THEN "pm_cleanup" ELSE "crashed"
    /\ UNCHANGED << args, dirVars, dlVars, pmEntered, poolVars, tailVars >>

\* lines 152-159: process.wait() returns; True is returned for every exit code
EnFinish ==
    /\ pc = "en_read"
    /\ beet.st = "exited"
    /\ pc' = "pm_cleanup"
    /\ UNCHANGED << args, dirVars, dlVars, pmEntered, poolVars, tailVars >>

(* ------------------------------ cleanup ------------------------------- *)
\* lines 231-237, 287: shutil.rmtree(directory); an exception is caught and may
\* leave the directory partly removed; then "Workflow complete."
PmCleanup ==
    /\ pc = "pm_cleanup"
    /\ cleanupAttempts' = cleanupAttempts + 1
    /\ \/ /\ dirExists' = FALSE
          /\ dirFiles' = {}
       \/ /\ dirFiles' \in SUBSET dirFiles
          /\ UNCHANGED dirExists
    /\ pc' = "done"
    /\ UNCHANGED << args, dlVars, pmEntered, poolVars, beet, enrichCalls >>

(* --------------------------- specification ---------------------------- *)
Next ==
    \/ MainParse
    \/ DlPreflight
    \/ DlOpenLog
    \/ DlLaunch
    \/ \E l \in Lines : DlReadLine(l)
    \/ \E l \in Lines : DlWriteRaises(l)
    \/ DlReadRaises
    \/ DlFinish
    \/ DlExcept
    \/ \E c \in ExitCodes : SldlExit(c)
    \/ \E f \in FileIds : SldlWritesFile(f)
    \/ MainDecide
    \/ PmCheckScript
    \/ PmDiscover
    \/ PmSubmit
    \/ \E i \in FileIds : WorkerLaunch(i)
    \/ \E i \in FileIds : WorkerLaunchRaises(i)
    \/ \E i \in FileIds : WorkerReadRaises(i)
    \/ \E i \in FileIds, c \in ExitCodes : NormExit(i, c)
    \/ \E i \in FileIds : WorkerFinish(i)
    \/ PmCollect
    \/ PmReport
    \/ EnLaunch
    \/ EnReadRaises
    \/ \E c \in ExitCodes : BeetExit(c)
    \/ EnFinish
    \/ PmCleanup

Spec == Init /\ [][Next]_vars

(* ----------------------------- final status -------------------------- *)
\* how the invocation ends: exit status of the interpreter and the last line it
\* prints (line 287 and normal return; parser.error at 259, 265, 285; an
\* exception leaving main at 290)
FinalStatus ==
    CASE pc = "done" -> [exit |-> 0, message |-> "Workflow complete."]
      [] pc = "usage_error" -> [exit |-> 2, message |-> "usage"]
      [] pc = "crashed" -> [exit |-> 1, message |-> "Traceback"]
      [] OTHER -> [exit |-> -1, message |-> ""]

(* ============================ properties ============================== *)
Range(seq) == { seq[k] : k \in DOMAIN seq }

\* the fan-out / fan-in of process_music is over
PastFanIn ==
    \/ pc \in {"en_launch", "en_read", "pm_cleanup"}
    \/ pc = "done" /\ audio_files # <<>>

\* some normalize.sh process has been started
SomeWorkerLaunched == \E i \in DOMAIN nproc : nproc[i].st # "none"

\* C1: every validated invocation attempts the removal of the directory
\* exactly once before the run ends.
\* (Stated here for the runs in which normalize.sh was not found missing.)
C1_CleanupExactlyOnce ==
    (pc = "done" /\ scriptCheck # "missing") => cleanupAttempts = 1

\* C2: after download_music returns, process_music is entered if and only if
\* the download succeeded or the download directory is non-empty.
C2_NormalizationEntryRule ==
    [][ (pc = "dl_returned" /\ pc' # "dl_returned")
        => /\ pmEntered' <=> (download_success \/ dirFiles # {})
           /\ pmEntered' <=> (pc' = "pm_check")
           /\ ~pmEntered' <=> (pc' = "done") ]_vars

C2_Witness ==
    /\ dlOutcome = "exit_nonzero"
    /\ ~download_success
    /\ pmEntered
    /\ pc = "pm_check"

C4_StagesNeverOverlap ==
    /\ SomeWorkerLaunched => sldl # "running"
    /\ cleanupAttempts > 0 => beet.st # "running"

\* C5: after the pool completes every discovered file has exactly one
\* verdict: successes plus failures equal the number of discovered files.
C5_OneVerdictPerFile ==
    PastFanIn =>
        /\ Len(successful_conversions) + Len(failed_conversions) = Len(audio_files)
        /\ \A i \in DOMAIN audio_files :
             Cardinality({ k \in DOMAIN successful_conversions :
                             successful_conversions[k] = audio_files[i] })
             + Cardinality({ k \in DOMAIN failed_conversions :
                               failed_conversions[k].file = audio_files[i] }) = 1

C5_Witness ==
    /\ PastFanIn
    /\ Len(audio_files) = 3
    /\ max_workers = 2
    /\ \E k \in DOMAIN failed_conversions : failed_conversions[k].error = "exception"
    /\ \E k \in DOMAIN failed_conversions : failed_conversions[k].error = "Exit code"
    /\ successful_conversions # <<>>

\* C6 as stated: after fan-in the success list holds exactly the files whose
\* normalization process exited with code 0, the failure list the others.
C6_SuccessIffExitZero ==
    PastFanIn =>
        \A i \in DOMAIN audio_files :
            /\ audio_files[i] \in Range(successful_conversions)
                 <=> (nproc[i].st = "exited" /\ nproc[i].rc = 0)
            /\ (\E k \in DOMAIN failed_conversions :
                    failed_conversions[k].file = audio_files[i])
                 <=> ~(nproc[i].st = "exited" /\ nproc[i].rc = 0)

\* C6 amended: after fan-in the success list holds exactly the files whose
\* worker obtained exit code 0 from process.wait(); the failure list holds
\* exactly the others, with reason "Exit code" for a non-zero exit and the
\* exception text when the worker raised (at launch or while reading output).
C6_SuccessIffWorkerSawZero ==
    PastFanIn =>
        /\ Len(successful_conversions) + Len(failed_conversions) = Len(audio_files)
        /\ \A i \in DOMAIN audio_files :
             /\ audio_files[i] \in Range(successful_conversions)
                  <=> (wstate[i] = "returned" /\ nproc[i].rc = 0)
             /\ [file |-> audio_files[i], error |-> "Exit code"] \in Range(failed_conversions)
                  <=> (wstate[i] = "returned" /\ nproc[i].rc # 0)
             /\ [file |-> audio_files[i], error |-> "exception"] \in Range(failed_conversions)
                  <=> wstate[i] = "raised"

\* stub exit codes 0, 0, 1: two successes and the one failing file
C6_Witness ==
    /\ PastFanIn
    /\ Len(audio_files) = 3
    /\ \A i \in DOMAIN nproc : nproc[i] = [st |-> "exited", rc |-> IF i = 3 THEN 1 ELSE 0]
    /\ \A i \in DOMAIN wstate : wstate[i] = "returned"
    /\ Len(successful_conversions) = 2
    /\ failed_conversions = << [file |-> audio_files[3], error |-> "Exit code"] >>

\* C7: if the walk finds no file with an allow-listed extension, the stage
\* ends with zero counts, no worker dispatched and no enrichment.
C7_NothingDiscovered ==
    ( /\ pmEntered
      /\ pc \notin {"pm_check", "pm_discover"}
      /\ \A f \in walked : LowerExt(Ext(f)) \notin supported_extensions )
    => /\ pc = "done"
       /\ submitted = 0
       /\ wstate = <<>>
       /\ nproc = <<>>
       /\ successful_conversions = <<>>
       /\ failed_conversions = <<>>
       /\ beet.st = "none"
       /\ enrichCalls = 0

C7_Witness ==
    /\ pc = "done"
    /\ pmEntered
    /\ walked # {}
    /\ \A f \in walked : LowerExt(Ext(f)) \notin supported_extensions

\* the per-track-failure marker: 'Failed:' and, in any case, 'artist:'
C8_Marker(line) ==
    \E i, j \in DOMAIN line : line[i] = "Failed:" /\ Lower(line[j]) = "artist:"

C9_PreflightRunsNothing ==
    dlOutcome = "preflight" =>
        /\ sldl = "none"
        /\ ~SomeWorkerLaunched
        /\ beet.st = "none"

\* C10: the local-processing directory with any acquisition field, the
\* playlist reference without all other acquisition fields, or neither mode,
\* is a usage error reported before any stage runs.
C10_InvalidCombination ==
    \/ args["process_dir"] /\ \E a \in ArgNames \ {"process_dir"} : args[a]
    \/ args["playlist_url"] /\ \E a \in ArgNames \ {"process_dir", "playlist_url"} : ~args[a]
    \/ ~args["process_dir"] /\ ~args["playlist_url"]

C10_UsageErrorBeforeAnyStage ==
    C10_InvalidCombination => pc \in {"parse", "usage_error"}


\* C11: when the acquisition tool exits non-zero and the download directory
\* is empty, the final status of the run differs from that of a run whose
\* download succeeded (exit status 0, last line "Workflow complete.").
C11_FailedRunReportedFailed ==
    (pc = "done" /\ dlOutcome = "exit_nonzero" /\ ~pmEntered)
    => FinalStatus # [exit |-> 0, message |-> "Workflow complete."]


\* the normalize.sh processes running right now
RunningNormalizers == { i \in DOMAIN nproc : nproc[i].st = "running" }

\* C12: the number of normalization processes running at the same time never
\* exceeds the pool size max(1, cores div 2).
C12_ProcessesWithinPool == Cardinality(RunningNormalizers) <= max_workers

\* C13 as stated: inputs with pairwise distinct basenames (name with
\* extension) never get the same destination path.
C13_DistinctBasenames ==
    \A i, j \in DOMAIN nproc :
        ( /\ i # j
          /\ nproc[i].st # "none"
          /\ nproc[j].st # "none"
          /\ Basename(audio_files[i]) # Basename(audio_files[j]) )
        => OutputFile(audio_files[i]) # OutputFile(audio_files[j])

\* C13 amended: inputs whose names differ after the extension is removed
\* never get the same destination path.
C13_DistinctStems ==
    \A i, j \in DOMAIN nproc :
        ( /\ i # j
          /\ nproc[i].st # "none"
          /\ nproc[j].st # "none"
          /\ Stem(audio_files[i]) # Stem(audio_files[j]) )
        => OutputFile(audio_files[i]) # OutputFile(audio_files[j])

C13_Witness ==
    /\ \E i, j \in DOMAIN nproc :
         /\ i # j
         /\ nproc[i].st = "running"
         /\ nproc[j].st = "running"
         /\ wstate[i] = "running"
         /\ wstate[j] = "running"
         /\ Stem(audio_files[i]) # Stem(audio_files[j])


\* the display filter: a line is shown iff it contains a progress keyword
C14_Shown(line) ==
    \E i \in DOMAIN line :
        line[i] \in {"Downloading", "tracks:", "Succeeded:", "Failed:", "Completed:"}

\* C14: while the stream is read, and after a return by exit code, the
\* transcript holds every line read so far (right-stripped), in stream order,
\* whatever the display filter decided; the displayed lines are the subsequence
\* of the transcript that the filter lets through.
C14_TranscriptHoldsEveryLine ==
    (pc = "dl_read" \/ dlOutcome \in {"exit_zero", "exit_nonzero"}) =>
        /\ transcript = [k \in DOMAIN stream |-> RStrip(stream[k])]
        /\ displayed = SelectSeq(transcript, C14_Shown)

C14_Witness ==
    /\ pc = "dl_read"
    /\ stream = << <<"Searching", " ">>, <<"Failed:">> >>
    /\ transcript = << <<"Searching">>, <<"Failed:">> >>
    /\ displayed = << <<"Failed:">> >>

\* C15: a failure to write the transcript is propagated out of
\* download_music: no further line is read and the call does not return a
\* value to its caller as a non-zero exit does.
C15_WriteFailurePropagates == writeFailed => pc \in {"dl_except", "crashed"}

\* the status of a run in which enrichment and cleanup both succeeded
CleanStatus == [exit |-> 0, message |-> "Workflow complete."]

\* C16: an enrichment failure (non-zero exit, launch or read exception) is
\* always followed by the cleanup attempt, and after the cleanup attempt,
\* failed or not, the run is in its final state with the status of a run in
\* which enrichment and cleanup succeeded.
C16_BestEffortErrorsKeepPath ==
    /\ enrichCalls >= 1 => pc \in {"en_launch", "en_read", "pm_cleanup", "done"}
    /\ (enrichCalls >= 1 /\ pc = "done") => cleanupAttempts = 1
    /\ cleanupAttempts >= 1 => (pc = "done" /\ FinalStatus = CleanStatus)

\* beet exited 1, the removal was attempted and failed, the run is complete
C16_Witness ==
    /\ pc = "done"
    /\ enrichCalls = 1
    /\ beet = [st |-> "exited", rc |-> 1]
    /\ cleanupAttempts = 1
    /\ dirExists
    /\ FinalStatus = CleanStatus

\* the arguments passed validation (main.py:257-265 did not call parser.error)
ValidInvocation == ParseOutcome(args) # "usage_error"

\* C17: every invocation with valid arguments reaches the final Done state
\* ("Workflow complete."): a valid run in which nothing more can happen, no
\* step of the program and no exit of a launched process, is in Done.
C17_ValidRunReachesDone ==
    ValidInvocation => (pc = "done" \/ ENABLED Next)

\* companion of C17: the only other way a valid run stops is the exception
\* that leaves main(); in particular the fan-in never blocks for ever
C17_StopsOnlyInDoneOrCrash ==
    ValidInvocation => (pc \in {"done", "crashed"} \/ ENABLED Next)

\* position of a file in the discovery (submission) order
DiscoveryIndex(f) == CHOOSE k \in DOMAIN audio_files : audio_files[k] = f

\* the files of `files` appear in the order in which they were discovered
InDiscoveryOrder(files) ==
    \A a, b \in DOMAIN files :
        a < b => DiscoveryIndex(files[a]) < DiscoveryIndex(files[b])

\* C18: the success list and the failure list each hold their files in
\* discovery (submission) order, whatever the order of completion of the
\* workers and whatever the pool size.
C18_ListsInDiscoveryOrder ==
    /\ Range(successful_conversions) \subseteq Range(audio_files)
    /\ InDiscoveryOrder(successful_conversions)
    /\ { failed_conversions[k].file : k \in DOMAIN failed_conversions }
           \subseteq Range(audio_files)
    /\ InDiscoveryOrder([k \in DOMAIN failed_conversions |-> failed_conversions[k].file])

\* a later future finished first, yet both lists come out in discovery order
C18_Witness ==
    /\ PastFanIn
    /\ completedOutOfOrder
    /\ max_workers >= 2
    /\ Len(successful_conversions) >= 2
    /\ Len(failed_conversions) >= 1

\* C19: once at least one audio file was discovered and dispatched, the
\* removal of the whole input directory is attempted after the report,
\* whatever the per-file verdicts, in both modes: a run with discovered files
\* never ends without the attempt, and the attempt is made only after every
\* result was collected and the pool was left.
C19_RemovalWhateverTheVerdicts ==
    /\ (pc = "done" /\ audio_files # <<>>) => cleanupAttempts = 1
    /\ cleanupAttempts >= 1 =>
          /\ audio_files # <<>>
          /\ submitted = Len(audio_files)
          /\ collected = Len(audio_files)
          /\ ~executorOpen

\* local-processing mode, every file failed, enrichment did not run, and the
\* user's directory is gone with its audio files although nothing was converted
C19_Witness ==
    /\ ParseOutcome(args) = "process"
    /\ pc = "done"
    /\ audio_files # <<>>
    /\ successful_conversions = <<>>
    /\ Len(failed_conversions) = Len(audio_files)
    /\ enrichCalls = 0
    /\ cleanupAttempts = 1
    /\ ~dirExists
    /\ Range(audio_files) \cap dirFiles = {}

\* C20: when normalize.sh is missing or not executable, process_music returns
\* before discovery and changes nothing: the step that finds it missing ends
\* the run and leaves the directory, the pool and the tail of the pipeline as
\* they were, and from then on no file was walked, no worker and no beet
\* process was launched, the output directory was not created and the input
\* directory was not removed.
C20_ScriptMissingChangesNothing ==
    [][ scriptCheck' = "missing" =>
          /\ pc' = "done"
          /\ pc = "pm_check" => UNCHANGED << dirVars, dlVars >>
          /\ UNCHANGED << walked, audio_files, max_workers, outDirMade, submitted, wstate,
                          nproc, result, collected, successful_conversions,
                          failed_conversions, executorOpen, completedOutOfOrder,
                          tailVars >>
          /\ walked' = {}
          /\ audio_files' = <<>>
          /\ nproc' = <<>>
          /\ beet' = NoProc
          /\ ~outDirMade'
          /\ enrichCalls' = 0
          /\ cleanupAttempts' = 0 ]_vars

\* the script is missing, the directory holds an audio file, the run is over
\* and the directory is still there
C20_Witness ==
    /\ scriptCheck = "missing"
    /\ pc = "done"
    /\ dirExists
    /\ \E f \in dirFiles : IsAudio(f)
    /\ ~outDirMade
    /\ cleanupAttempts = 0

====
